---- MODULE Spec2Model ----
(***************************************************************************)
(* A model of the DoJobber scheduling engine (src/dojobber/dojobber.py):   *)
(* configure (dependency registration, graph build, cycle detection),      *)
(* checknrun (outer retry loop), _checknrun (recursive depth-first pass    *)
(* and the check / run / recheck protocol of one attempt) and cleanup.     *)
(*                                                                         *)
(* Python dictionaries are functions whose DOMAIN is the set of keys.      *)
(* Python None / True / False stored in a dictionary are the strings       *)
(* "None" / "True" / "False"; an optional integer is <<>> or <<k>>.        *)
(***************************************************************************)
EXTENDS Integers, Sequences, FiniteSets, TLC

\* ------------------------------------------------------------------ bounds
Nodes == {"A", "B", "C"}
MaxTries == 2
MaxRuns == 2
\* the time a call of a slow Run takes, in seconds
MaxRunTime == 2
\* configure's default_retry_delay
DefaultRetryDelay == 1

VARIABLES
    \* the Job classes handed to the engine (class attributes and behaviour)
    DEPS,            \* class -> sequence of classes (Job.DEPS)
    NonIterable,     \* classes whose DEPS is the one class itself, not a list of it
    TRIES,           \* class -> <<>> (None) or <<k>> (Job.TRIES)
    RETRY_DELAY,     \* class -> <<>> (None) or <<d>> (Job.RETRY_DELAY)
    Rich,            \* classes that define Cleanup, write to both storages and chdir
    Kind,            \* class -> the base class it derives from: Job, RunonlyJob, DummyJob
    RunSecs,         \* class -> the seconds a call of its Run takes
    \* DoJobber attributes
    root, no_act, cleanup_on, default_tries, default_retry_delay,
    classmap,        \* registered class names, in registration order
    deps,            \* _deps
    retry,           \* _retry: name -> [tries, retry_delay, nexttry, lastphase]
    graph,           \* name -> neighbour list (digraph node_neighbors)
    nodestatus, nodeexceptions, noderesults,
    color,           \* last 'color' attribute added to each graph node
    run_phase,
    objsrun,         \* _objsrun: instances in creation order
    storage,         \* _checknrun_storage
    checknrun_cwd,
    cwd,             \* the process working directory
    now,             \* the clock read by time.time(), in seconds
    \* control
    pc,              \* position of the caller / of checknrun
    stack,           \* activation records of _checknrun, innermost last
    target,          \* the node argument of the running checknrun ("None" = default)
    obj,             \* the Job instance of the current (or latest) attempt
    ck,              \* loop index of cleanup (position in reversed _objsrun)
    \* observation of the execution
    runs,            \* number of checknrun calls so far
    lastend,         \* how the latest checknrun call ended
    attempts,        \* constructor calls per node since configure
    made,            \* constructor calls that returned an instance, since configure
    tried,           \* per node, the phases of its attempts in the current run
    checked,         \* nodes whose Check was called in the current run
    passed,          \* nodes with some passing Check or Run call in the current run
    runcalls,        \* Run invocations in the current run
    cleanlog,        \* instances (indices of objsrun) given to Cleanup in the current pass
    restored,        \* the current run executed os.chdir(_checknrun_cwd) at its end
    cleanup_calls,   \* calls of cleanup() made by the current run
    runsof,          \* per node, the Run invocations in the current run
    trace,           \* the methods called on the instance of the latest attempt
    passes,          \* calls of _checknrun made by checknrun's loop in the current run
    started          \* per node, <<>> or <<the clock when its latest attempt started>>

decl == <<DEPS, NonIterable, TRIES, RETRY_DELAY, Rich, Kind, RunSecs>>
conf == <<root, no_act, cleanup_on, default_tries, default_retry_delay>>
built == <<classmap, deps, graph>>
status == <<nodestatus, nodeexceptions, noderesults, color>>
obs == <<runs, lastend, attempts, made, tried, checked, passed, runcalls, cleanlog,
         restored, cleanup_calls>>
hist == <<runsof, trace, passes, started>>
vars == <<decl, conf, built, retry, status, run_phase, objsrun, storage,
          checknrun_cwd, cwd, now, pc, stack, target, obj, ck, obs, hist>>

\* ------------------------------------------------------------------ helpers
Range(s) == {s[i] : i \in 1..Len(s)}
EmptyDict == [x \in {} |-> "None"]
\* dict.get(key): the value, or None for a missing key
Get(d, k) == IF k \in DOMAIN d THEN d[k] ELSE "None"
\* d[k] = v
Put(d, k, v) == [x \in DOMAIN d \cup {k} |-> IF x = k THEN v ELSE d[x]]

\* duplicate-free sequences over S
RECURSIVE Perms(_)
Perms(S) == IF S = {} THEN {<<>>}
            ELSE UNION {{<<x>> \o p : p \in Perms(S \ {x})} : x \in S}
\* the shapes of a DEPS list: every list that names no class twice, and every list of
\* two names, the same class twice included
DepLists ==
    (UNION {Perms(S) : S \in SUBSET Nodes}) \cup {<<x, y>> : x \in Nodes, y \in Nodes}

\* ------------------------------------------------------------------ configure
\* _init_deps: register theclass and, depth first, its dependencies. st carries
\* _classmap, _retry, _deps and the error raised, if any.
RECURSIVE init_deps(_, _, _, _, _), init_deps_each(_, _, _, _, _, _)
init_deps(theclass, st, dflt, dflt_delay, time) ==
    IF st.err # "none" \/ theclass \in Range(st.classmap) THEN st
    ELSE LET tries == IF TRIES[theclass] # <<>> THEN TRIES[theclass][1] ELSE dflt
             delay == IF RETRY_DELAY[theclass] # <<>> THEN RETRY_DELAY[theclass][1]
                      ELSE dflt_delay
             s1 == [st EXCEPT !.classmap = Append(@, theclass)]
         IN  IF delay < 0 THEN [s1 EXCEPT !.err = "delay"]
             ELSE IF tries < 1 THEN [s1 EXCEPT !.err = "tries"]
             ELSE LET s2 == [s1 EXCEPT !.retry =
                                 Put(@, theclass, [tries |-> tries, retry_delay |-> delay,
                                                   nexttry |-> time, lastphase |-> -1])]
                      s3 == init_deps_each(DEPS[theclass], 1, s2, dflt, dflt_delay, time)
                  IN  IF theclass \in NonIterable THEN [s2 EXCEPT !.err = "TypeError"]
                      ELSE IF s3.err # "none" THEN s3
                      ELSE [s3 EXCEPT !.deps = Put(@, theclass, DEPS[theclass])]
init_deps_each(ds, i, st, dflt, dflt_delay, time) ==
    IF i > Len(ds) THEN st
    ELSE init_deps_each(ds, i + 1, init_deps(ds[i], st, dflt, dflt_delay, time), dflt,
                        dflt_delay, time)

\* cycles.find_cycle_to_ancestor: the spanning-tree path ancestor..node, or [] when
\* ancestor is not above node
RECURSIVE find_cycle_to_ancestor(_, _, _, _)
find_cycle_to_ancestor(node, ancestor, tree, path) ==
    IF node = ancestor THEN <<node>> \o path
    ELSE IF node = "None" THEN <<>>
    ELSE find_cycle_to_ancestor(tree[node], ancestor, tree, <<node>> \o path)

\* variant: the visited-node test of an undirected graph
is_back_edge_undirected(node, each, tree) == tree[node] # each

\* cycles.find_cycle, on meeting a visited node: "directed or spanning_tree[node] !=
\* each"; the graph is a digraph
is_back_edge(node, each, tree) == TRUE

\* cycles.find_cycle's inner dfs over a digraph g
RECURSIVE cycle_dfs(_, _, _), cycle_dfs_each(_, _, _, _)
cycle_dfs(g, node, st) ==
    cycle_dfs_each(g, node, 1, [st EXCEPT !.visited = @ \cup {node}])
cycle_dfs_each(g, node, i, st) ==
    IF i > Len(g[node]) \/ st.cycle # <<>> THEN st
    ELSE LET each == g[node][i] IN
         IF each \notin st.visited
         THEN cycle_dfs_each(g, node, i + 1,
                  cycle_dfs(g, each, [st EXCEPT !.tree = Put(@, each, node)]))
         ELSE cycle_dfs_each(g, node, i + 1,
                  IF is_back_edge(node, each, st.tree)
                  THEN [st EXCEPT !.cycle =
                            @ \o find_cycle_to_ancestor(node, each, st.tree, <<>>)]
                  ELSE st)

\* cycles.find_cycle: the first cycle met, [] when there is none
RECURSIVE find_cycle_from(_, _, _, _)
find_cycle_from(g, order, i, st) ==
    IF i > Len(order) THEN <<>>
    ELSE IF order[i] \in st.visited THEN find_cycle_from(g, order, i + 1, st)
    ELSE LET s1 == cycle_dfs(g, order[i], [st EXCEPT !.tree = Put(@, order[i], "None")])
         IN  IF s1.cycle # <<>> THEN s1.cycle
             ELSE find_cycle_from(g, order, i + 1, s1)
find_cycle(g, order) ==
    find_cycle_from(g, order, 1, [visited |-> {}, tree |-> EmptyDict, cycle |-> <<>>])

\* digraph.add_edge((u, v)): an edge already in the graph is refused with
\* AdditionError
add_edge(gs, u, v) ==
    IF gs.err # "none" THEN gs
    ELSE IF v \in Range(gs.g[u]) THEN [gs EXCEPT !.err = "AdditionError"]
    ELSE [gs EXCEPT !.g = [@ EXCEPT ![u] = Append(@, v)]]

\* _init_graph: one edge per (class, dependency) pair, class by class in
\* registration order; gs carries the graph and the error raised, if any
RECURSIVE init_graph_each(_, _, _, _)
init_graph_each(st, i, j, gs) ==
    IF i > Len(st.classmap) THEN gs
    ELSE IF j > Len(st.deps[st.classmap[i]]) THEN init_graph_each(st, i + 1, 1, gs)
    ELSE init_graph_each(st, i, j + 1,
             add_edge(gs, st.classmap[i], st.deps[st.classmap[i]][j]))
init_graph(st) ==
    init_graph_each(st, 1, 1, [g |-> [c \in Range(st.classmap) |-> <<>>], err |-> "none"])

\* searching.depth_first_search(graph, root): the post-ordering from root
RECURSIVE dfs_post(_, _, _), dfs_post_each(_, _, _, _)
dfs_post(g, node, st) ==
    LET s1 == dfs_post_each(g, node, 1, [st EXCEPT !.visited = @ \cup {node}])
    IN  [s1 EXCEPT !.post = Append(@, node)]
dfs_post_each(g, node, i, st) ==
    IF i > Len(g[node]) THEN st
    ELSE dfs_post_each(g, node, i + 1,
             IF g[node][i] \notin st.visited THEN dfs_post(g, g[node][i], st) ELSE st)
depth_first_search(g, r) == dfs_post(g, r, [visited |-> {}, post |-> <<>>]).post

\* a Job instance as Job.__init__ leaves it
NewObj(nodename, constructed_ok) ==
    [node |-> nodename, constructed |-> constructed_ok, check_phase |-> "None",
     check_results |-> "None", check_exception |-> "None",
     run_results |-> "None", run_exception |-> "None",
     recheck_results |-> "None", recheck_exception |-> "None"]

\* the state after DoJobber(): nothing registered, no run made
Constructed ==
    /\ root = "None" /\ no_act = FALSE /\ cleanup_on = TRUE /\ default_tries = <<>>
    /\ default_retry_delay = <<>>
    /\ classmap = <<>> /\ deps = EmptyDict /\ retry = EmptyDict /\ graph = EmptyDict
    /\ nodestatus = EmptyDict /\ nodeexceptions = EmptyDict /\ noderesults = EmptyDict
    /\ color = EmptyDict
    /\ run_phase = 0 /\ objsrun = <<>> /\ storage = EmptyDict
    /\ checknrun_cwd = "None" /\ cwd = "start" /\ now = 0
    /\ pc = "new" /\ stack = <<>> /\ target = "None"
    /\ obj = NewObj("None", FALSE) /\ ck = 0
    /\ runs = 0 /\ lastend = "none"
    /\ attempts = [n \in Nodes |-> 0] /\ made = 0 /\ tried = [n \in Nodes |-> <<>>]
    /\ checked = {} /\ passed = {} /\ runcalls = 0 /\ cleanlog = <<>>
    /\ restored = FALSE /\ cleanup_calls = 0
    /\ runsof = [n \in Nodes |-> 0] /\ trace = <<>> /\ passes = 0
    /\ started = [n \in Nodes |-> <<>>]

\* configure(root, no_act, cleanup, default_tries, default_retry_delay):
\* _load_class = _init_deps; _init_graph
Configure(r, na, cl, dt, dd) ==
    /\ pc = "new"
    /\ LET st == init_deps(r, [classmap |-> <<>>, retry |-> EmptyDict,
                               deps |-> EmptyDict, err |-> "none"], dt, dd, now)
           gs == IF st.err = "none" THEN init_graph(st)
                 ELSE [g |-> [c \in Range(st.classmap) |-> <<>>], err |-> st.err]
       IN  /\ root' = r /\ no_act' = na /\ cleanup_on' = cl /\ default_tries' = <<dt>>
           /\ default_retry_delay' = <<dd>>
           /\ classmap' = st.classmap /\ retry' = st.retry /\ deps' = st.deps
           /\ graph' = gs.g
           /\ pc' = IF gs.err # "none" THEN "config_error"
                    ELSE IF find_cycle(gs.g, st.classmap) # <<>> THEN "config_error"
                    ELSE "ready"
    /\ UNCHANGED <<hist, now, decl, status, run_phase, objsrun, storage, checknrun_cwd, cwd,
                   stack, target, obj, ck, obs>>

\* ------------------------------------------------------------------ status updates
\* _node_failed
node_failed(nodename, err) ==
    /\ color' = Put(color, nodename, "red")
    /\ nodestatus' = Put(nodestatus, nodename, "False")
    /\ nodeexceptions' = Put(nodeexceptions, nodename, err)
    /\ UNCHANGED noderesults

\* _node_succeeded
node_succeeded(nodename, results) ==
    /\ nodestatus' = Put(nodestatus, nodename, "True")
    /\ color' = Put(color, nodename, "green")
    /\ noderesults' = Put(noderesults, nodename, results)
    /\ UNCHANGED nodeexceptions

\* variant: an eventual success is recorded like a first-check success
node_eventually_as_succeeded(nodename, results) ==
    /\ nodestatus' = Put(nodestatus, nodename, "True")
    /\ color' = Put(color, nodename, "green")
    /\ noderesults' = Put(noderesults, nodename, results)
    /\ UNCHANGED nodeexceptions

\* _node_eventually_succeeded
node_eventually_succeeded(nodename, results) ==
    /\ nodestatus' = Put(nodestatus, nodename, "True")
    /\ color' = Put(color, nodename, "darkgreen")
    /\ noderesults' = Put(noderesults, nodename, results)
    /\ UNCHANGED nodeexceptions

\* _node_untested, applied when nodename is not yet a key of nodestatus
node_untested(nodename) ==
    IF nodename \in DOMAIN nodestatus THEN nodestatus
    ELSE Put(nodestatus, nodename, "None")

\* variant: any() where success() has all()
success_of_any ==
    /\ DOMAIN nodestatus # {}
    /\ \E n \in DOMAIN nodestatus : nodestatus[n] = "True"

\* success(): nodestatus and all(nodestatus.values())
success ==
    /\ DOMAIN nodestatus # {}
    /\ \A n \in DOMAIN nodestatus : nodestatus[n] = "True"

\* partial_success(): nodestatus and any(nodestatus.values())
partial_success ==
    /\ DOMAIN nodestatus # {}
    /\ \E n \in DOMAIN nodestatus : nodestatus[n] = "True"

\* failure(): not success()
failure == ~success

\* ------------------------------------------------------------------ checknrun
Top == stack[Len(stack)]
AtTop(at) == pc = "pass" /\ stack # <<>> /\ Top.at = at
SetTop(f) == [stack EXCEPT ![Len(stack)] = f]

\* entry of _checknrun(node): the post-ordering and blocked = False
NewFrame(nodename) ==
    [node |-> nodename, post |-> depth_first_search(graph, nodename), i |-> 1,
     blocked |-> FALSE, at |-> "deps"]

\* variant: blocked is assigned from the dependency visited last
still_blocked_lastdep(blocked, depstatus) == depstatus # "True"

\* "Were all dependent nodes happy?": if not self.nodestatus.get(depnode): blocked = True
still_blocked(blocked, depstatus) == blocked \/ depstatus # "True"

\* return from _checknrun: back in the caller's loop over post, "Were all dependent
\* nodes happy?" is evaluated on the status ns the callee left; the outermost
\* return hands control back to checknrun's loop
Return(ns) ==
    IF Len(stack) = 1
    THEN /\ stack' = <<>>
         /\ pc' = "afterpass"
    ELSE LET caller == stack[Len(stack) - 1]
             depnode == caller.post[caller.i]
         IN  /\ stack' = SubSeq(stack, 1, Len(stack) - 2) \o
                    <<[caller EXCEPT !.blocked = still_blocked(@, Get(ns, depnode)),
                                     !.i = @ + 1]>>
             /\ pc' = pc

\* checknrun(node), up to the first call of _checknrun
StartRun(node) ==
    /\ pc = "ready"
    /\ runs < MaxRuns
    /\ runs' = runs + 1
    /\ checknrun_cwd' = cwd
    /\ storage' = Put(EmptyDict, "__global", {})
    /\ nodestatus' = EmptyDict
    /\ target' = node
    /\ stack' = <<NewFrame(IF node = "None" THEN root ELSE node)>>
    /\ pc' = "pass"
    /\ lastend' = "running"
    /\ tried' = [n \in Nodes |-> <<>>]
    /\ checked' = {}
    /\ passed' = {}
    /\ runcalls' = 0
    /\ cleanlog' = <<>>
    /\ restored' = FALSE
    /\ cleanup_calls' = 0
    /\ runsof' = [n \in Nodes |-> 0]
    /\ passes' = 1
    /\ UNCHANGED <<trace, started, now, decl, conf, built, retry, nodeexceptions, noderesults, color,
                   run_phase, objsrun, cwd, obj, ck, attempts, made>>

\* variant: a dependency is visited whatever its status
needs_visit_always(depstatus) == TRUE

\* if not self.nodestatus.get(depnode): the dependency is not known to have succeeded
needs_visit(depstatus) == depstatus # "True"

\* for depnode in post: if depnode == nodename: continue
DepSelf ==
    /\ AtTop("deps")
    /\ Top.i <= Len(Top.post)
    /\ Top.post[Top.i] = Top.node
    /\ stack' = SetTop([Top EXCEPT !.i = @ + 1])
    /\ UNCHANGED <<hist, now, decl, conf, built, retry, status, run_phase, objsrun, storage,
                   checknrun_cwd, cwd, pc, target, obj, ck, obs>>

\* a dependency that is already successful: neither run again nor blocking
DepDone ==
    /\ AtTop("deps")
    /\ Top.i <= Len(Top.post)
    /\ Top.post[Top.i] # Top.node
    /\ ~needs_visit(Get(nodestatus, Top.post[Top.i]))
    /\ stack' = SetTop([Top EXCEPT !.i = @ + 1])
    /\ UNCHANGED <<hist, now, decl, conf, built, retry, status, run_phase, objsrun, storage,
                   checknrun_cwd, cwd, pc, target, obj, ck, obs>>

\* if not self.nodestatus.get(depnode): self._checknrun(depnode)
DepCall ==
    /\ AtTop("deps")
    /\ Top.i <= Len(Top.post)
    /\ Top.post[Top.i] # Top.node
    /\ needs_visit(Get(nodestatus, Top.post[Top.i]))
    /\ stack' = Append(stack, NewFrame(Top.post[Top.i]))
    /\ UNCHANGED <<hist, now, decl, conf, built, retry, status, run_phase, objsrun, storage,
                   checknrun_cwd, cwd, pc, target, obj, ck, obs>>

\* variant: the test of lastphase against the phase counter is missing
AlreadyTried_never(nodename) == FALSE

\* the three ways _checknrun returns without an attempt
Visiting == AtTop("deps") /\ Top.i > Len(Top.post)
AlreadyTried(nodename) == ~(run_phase > retry[nodename].lastphase)
\* variant: the test "if not self._retry[nodename]['tries']" is missing
NoTriesLeft_untested(nodename) == FALSE
NoTriesLeft(nodename) == retry[nodename].tries = 0

LeaveUnattempted ==
    /\ nodestatus' = node_untested(Top.node)
    /\ Return(nodestatus')
    /\ UNCHANGED <<hist, now, decl, conf, built, retry, nodeexceptions, noderesults, color,
                   run_phase, objsrun, storage, checknrun_cwd, cwd, target, obj, ck, obs>>

VisitBlocked ==
    /\ Visiting
    /\ Top.blocked
    /\ LeaveUnattempted

VisitAlreadyTried ==
    /\ Visiting
    /\ ~Top.blocked
    /\ AlreadyTried(Top.node)
    /\ LeaveUnattempted

VisitNoTries ==
    /\ Visiting
    /\ ~Top.blocked
    /\ ~AlreadyTried(Top.node)
    /\ NoTriesLeft(Top.node)
    /\ LeaveUnattempted

\* variant: the scheduler does not wait
no_sleep(time, secs) == time

\* time.sleep(secs): the clock when the call returns
sleep(time, secs) == time + secs

\* the clock after "sleeptime = nexttry - time.time(); if sleeptime > 0: sleep"
after_wait(rec) ==
    LET sleeptime == rec.nexttry - now
    IN  IF sleeptime > 0 THEN sleep(now, sleeptime) ELSE now

\* the retry record of a permitted attempt: nexttry, lastphase and tries
permit(rec) ==
    [rec EXCEPT !.nexttry = after_wait(rec) + rec.retry_delay,
                !.lastphase = run_phase, !.tries = @ - 1]

VisitPermit ==
    /\ Visiting
    /\ ~Top.blocked
    /\ ~AlreadyTried(Top.node)
    /\ ~NoTriesLeft(Top.node)
    /\ nodestatus' = node_untested(Top.node)
    /\ now' = after_wait(retry[Top.node])
    /\ retry' = [retry EXCEPT ![Top.node] = permit(@)]
    /\ started' = [started EXCEPT ![Top.node] = <<now'>>]
    /\ stack' = SetTop([Top EXCEPT !.at = "construct"])
    /\ UNCHANGED <<runsof, trace, passes, decl, conf, built, nodeexceptions, noderesults,
                   color, run_phase, objsrun, storage, checknrun_cwd, cwd, pc, target,
                   obj, ck, obs>>

\* variant: the mapping of the node's previous attempt is kept
kept_local_storage(nodename) ==
    IF nodename \in DOMAIN storage THEN storage[nodename] ELSE {}

\* self._checknrun_storage[nodename] = {}
new_local_storage(nodename) == {}

\* the call runs a method the job class defines itself: Check and Run of a Job, Run
\* of a RunonlyJob; RunonlyJob.Check, DummyJob.Check and DummyJob.Run are the
\* library's, which write no storage and change no directory
own_code(nodename, phase) ==
    \/ Kind[nodename] = "Job"
    \/ Kind[nodename] = "RunonlyJob" /\ phase = "run"
\* what a call of Check or Run of a storage-writing, directory-changing Job leaves
\* behind: a key in its local storage, a key in the shared storage
job_writes(st, nodename, phase) ==
    IF nodename \in Rich /\ own_code(nodename, phase)
    THEN [st EXCEPT ![nodename] = @ \cup {phase}, !["__global"] = @ \cup {nodename}]
    ELSE st
\* the call is made after os.chdir(self._checknrun_cwd)
job_cwd(nodename, phase) ==
    IF nodename \in Rich /\ own_code(nodename, phase) THEN "jobdir" ELSE checknrun_cwd

\* variant: a RunonlyJob that checks like any Job, before and after Run
RunonlyJob_Check_own(o) ==
    IF o.check_phase = "check"
    THEN {[ok |-> TRUE, val |-> "check_res"], [ok |-> FALSE, val |-> "check_err"]}
    ELSE {[ok |-> TRUE, val |-> "recheck_res"], [ok |-> FALSE, val |-> "recheck_err"]}

\* RunonlyJob.Check: fails in the 'check' phase; afterwards raises Run's exception
\* or returns Run's results
RunonlyJob_Check(o) ==
    IF o.check_phase = "check" THEN {[ok |-> FALSE, val |-> "runonly_err"]}
    ELSE IF o.run_exception # "None" THEN {[ok |-> FALSE, val |-> o.run_exception]}
    ELSE {[ok |-> TRUE, val |-> o.run_results]}

\* DummyJob.Check: "Always pass."
DummyJob_Check(o) == {[ok |-> TRUE, val |-> "None"]}

\* obj.Check(...): the outcomes of a call on instance o, a returned value or a raised
\* exception; the Check a Job subclass writes may do either
Check(o) ==
    CASE Kind[o.node] = "RunonlyJob" -> RunonlyJob_Check(o)
      [] Kind[o.node] = "DummyJob" -> DummyJob_Check(o)
      [] OTHER -> IF o.check_phase = "check"
                  THEN {[ok |-> TRUE, val |-> "check_res"],
                        [ok |-> FALSE, val |-> "check_err"]}
                  ELSE {[ok |-> TRUE, val |-> "recheck_res"],
                        [ok |-> FALSE, val |-> "recheck_err"]}

\* obj.Run(...): DummyJob.Run always passes, any other Run may return or raise
Run(o) ==
    IF Kind[o.node] = "DummyJob" THEN {[ok |-> TRUE, val |-> "None"]}
    ELSE {[ok |-> TRUE, val |-> "run_res"], [ok |-> FALSE, val |-> "run_err"]}

\* obj = self._classmap[nodename](): the constructor raises
ConstructFail ==
    /\ AtTop("construct")
    /\ attempts' = [attempts EXCEPT ![Top.node] = @ + 1]
    /\ tried' = [tried EXCEPT ![Top.node] = Append(@, run_phase)]
    /\ obj' = NewObj(Top.node, FALSE)
    /\ node_failed(Top.node, "ctor_err")
    /\ Return(nodestatus')
    /\ trace' = <<>>
    /\ UNCHANGED <<runsof, passes, started, now, decl, conf, built, retry, run_phase, objsrun, storage,
                   checknrun_cwd, cwd, target, ck, runs, lastend, made, checked, passed, runcalls,
                   cleanlog, restored, cleanup_calls>>

\* the constructor returns: storage is bound and the instance is recorded
ConstructOk ==
    /\ AtTop("construct")
    /\ attempts' = [attempts EXCEPT ![Top.node] = @ + 1]
    /\ tried' = [tried EXCEPT ![Top.node] = Append(@, run_phase)]
    /\ made' = made + 1
    /\ obj' = NewObj(Top.node, TRUE)
    /\ storage' = Put(storage, Top.node, new_local_storage(Top.node))
    /\ objsrun' = Append(objsrun, [node |-> Top.node, cleanups |-> 0])
    /\ stack' = SetTop([Top EXCEPT !.at = "check"])
    /\ trace' = <<>>
    /\ UNCHANGED <<runsof, passes, started, now, decl, conf, built, retry, status, run_phase, checknrun_cwd, cwd,
                   pc, target, ck, runs, lastend, checked, passed, runcalls, cleanlog, restored, cleanup_calls>>

\* the first Check returns
CheckPass ==
    /\ AtTop("check")
    /\ \E r \in Check([obj EXCEPT !.check_phase = "check"]) :
           /\ r.ok
           /\ obj' = [obj EXCEPT !.check_phase = "check", !.check_results = r.val]
           /\ node_succeeded(Top.node, r.val)
    /\ storage' = job_writes(storage, Top.node, "check")
    /\ cwd' = job_cwd(Top.node, "check")
    /\ checked' = checked \cup {Top.node}
    /\ passed' = passed \cup {Top.node}
    /\ Return(nodestatus')
    /\ trace' = Append(trace, "check")
    /\ UNCHANGED <<runsof, passes, started, now, decl, conf, built, retry, run_phase, objsrun, checknrun_cwd,
                   target, ck, runs, lastend, attempts, made, tried, runcalls, cleanlog,
                   restored, cleanup_calls>>

\* variant: the no_act test after a failed first Check is missing
act_allowed_always == TRUE

\* "In no_act mode, we only run the first check and get out of dodge"
act_allowed == ~no_act

\* the first Check raises: the attempt ends here in no_act mode, else Run is next
CheckFail ==
    /\ AtTop("check")
    /\ \E r \in Check([obj EXCEPT !.check_phase = "check"]) :
           /\ ~r.ok
           /\ obj' = [obj EXCEPT !.check_phase = "check", !.check_exception = r.val]
           /\ IF act_allowed
              THEN /\ stack' = SetTop([Top EXCEPT !.at = "run"])
                   /\ UNCHANGED <<status, pc>>
              ELSE /\ node_failed(Top.node, r.val)
                   /\ Return(nodestatus')
    /\ storage' = job_writes(storage, Top.node, "check")
    /\ cwd' = job_cwd(Top.node, "check")
    /\ checked' = checked \cup {Top.node}
    /\ trace' = Append(trace, "check")
    /\ UNCHANGED <<runsof, passes, started, now, decl, conf, built, retry, run_phase, objsrun, checknrun_cwd,
                   target, ck, runs, lastend, attempts, made, tried, passed, runcalls,
                   cleanlog, restored, cleanup_calls>>

\* variant: a Run that raised ends the calls of the attempt
after_Run_failfast(ok) == IF ok THEN "recheck" ELSE "run_failed"

\* "Run ... may fail with wild abandon - we'll be doing a recheck anyway."
after_Run(ok) == "recheck"

\* obj.Run(...), which takes its time: its outcome is recorded on the instance and
\* nowhere else
RunCall(ok) ==
    /\ AtTop("run")
    /\ now' = now + RunSecs[Top.node]
    /\ \E r \in Run(obj) :
           /\ r.ok = ok
           /\ obj' = IF ok THEN [obj EXCEPT !.run_results = r.val]
                           ELSE [obj EXCEPT !.run_exception = r.val]
    /\ storage' = job_writes(storage, Top.node, "run")
    /\ cwd' = job_cwd(Top.node, "run")
    /\ runcalls' = runcalls + 1
    /\ passed' = IF ok THEN passed \cup {Top.node} ELSE passed
    /\ stack' = SetTop([Top EXCEPT !.at = after_Run(ok)])
    /\ trace' = Append(trace, "run")
    /\ runsof' = [runsof EXCEPT ![Top.node] = @ + 1]
    /\ UNCHANGED <<passes, started, decl, conf, built, retry, status, run_phase, objsrun,
                   checknrun_cwd, pc, target, ck, runs, lastend, attempts, made, tried, checked,
                   cleanlog, restored, cleanup_calls>>

\* the Check after Run returns
RecheckPass ==
    /\ AtTop("recheck")
    /\ \E r \in Check([obj EXCEPT !.check_phase = "recheck"]) :
           /\ r.ok
           /\ obj' = [obj EXCEPT !.check_phase = "recheck", !.recheck_results = r.val]
           /\ node_eventually_succeeded(Top.node, r.val)
    /\ storage' = job_writes(storage, Top.node, "recheck")
    /\ cwd' = job_cwd(Top.node, "recheck")
    /\ passed' = passed \cup {Top.node}
    /\ Return(nodestatus')
    /\ trace' = Append(trace, "recheck")
    /\ UNCHANGED <<runsof, passes, started, now, decl, conf, built, retry, run_phase, objsrun, checknrun_cwd,
                   target, ck, runs, lastend, attempts, made, tried, checked, runcalls, cleanlog,
                   restored, cleanup_calls>>

\* the Check after Run raises
RecheckFail ==
    /\ AtTop("recheck")
    /\ \E r \in Check([obj EXCEPT !.check_phase = "recheck"]) :
           /\ ~r.ok
           /\ obj' = [obj EXCEPT !.check_phase = "recheck", !.recheck_exception = r.val]
           /\ node_failed(Top.node, r.val)
    /\ storage' = job_writes(storage, Top.node, "recheck")
    /\ cwd' = job_cwd(Top.node, "recheck")
    /\ Return(nodestatus')
    /\ trace' = Append(trace, "recheck")
    /\ UNCHANGED <<runsof, passes, started, now, decl, conf, built, retry, run_phase, objsrun, checknrun_cwd,
                   target, ck, obs>>

\* ------------------------------------------------------------------ the outer loop
\* a 'retriable' list that keeps the failed nodes that have no tries left
retriable_any_failed == {x \in DOMAIN retry : nodestatus[x] = "False"}
\* the nodes of the 'retriable' list
retriable == {x \in DOMAIN retry : nodestatus[x] = "False" /\ retry[x].tries > 0}
\* building that list reads self.nodestatus[x] for every x of _retry
retriable_raises == \E x \in DOMAIN retry : x \notin DOMAIN nodestatus

\* if self.success(): break
PassSuccess ==
    /\ pc = "afterpass"
    /\ success
    /\ pc' = "finish"
    /\ UNCHANGED <<hist, now, decl, conf, built, retry, status, run_phase, objsrun, storage,
                   checknrun_cwd, cwd, stack, target, obj, ck, obs>>

\* the list comprehension raises KeyError, which leaves checknrun
PassKeyError ==
    /\ pc = "afterpass"
    /\ ~success
    /\ run_phase' = run_phase + 1
    /\ retriable_raises
    /\ pc' = "ready"
    /\ lastend' = "KeyError"
    /\ UNCHANGED <<hist, now, decl, conf, built, retry, status, objsrun, storage, checknrun_cwd,
                   cwd, stack, target, obj, ck, runs, attempts, made, tried, checked, passed,
                   runcalls, cleanlog, restored, cleanup_calls>>

\* if not retriable: break
PassExhausted ==
    /\ pc = "afterpass"
    /\ ~success
    /\ run_phase' = run_phase + 1
    /\ ~retriable_raises
    /\ retriable = {}
    /\ pc' = "finish"
    /\ UNCHANGED <<hist, now, decl, conf, built, retry, status, objsrun, storage, checknrun_cwd,
                   cwd, stack, target, obj, ck, obs>>

\* if self._no_act: break
PassNoAct ==
    /\ pc = "afterpass"
    /\ ~success
    /\ run_phase' = run_phase + 1
    /\ ~retriable_raises
    /\ retriable # {}
    /\ no_act
    /\ pc' = "finish"
    /\ UNCHANGED <<hist, now, decl, conf, built, retry, status, objsrun, storage, checknrun_cwd,
                   cwd, stack, target, obj, ck, obs>>

\* the next iteration of while True
PassRetry ==
    /\ pc = "afterpass"
    /\ ~success
    /\ run_phase' = run_phase + 1
    /\ ~retriable_raises
    /\ retriable # {}
    /\ ~no_act
    /\ stack' = <<NewFrame(IF target = "None" THEN root ELSE target)>>
    /\ pc' = "pass"
    /\ passes' = passes + 1
    /\ UNCHANGED <<runsof, trace, started, now, decl, conf, built, retry, status, objsrun, storage, checknrun_cwd,
                   cwd, target, obj, ck, obs>>

\* os.chdir(self._checknrun_cwd); if self._cleanup: self.cleanup()
Finish ==
    /\ pc = "finish"
    /\ cwd' = checknrun_cwd
    /\ restored' = TRUE
    /\ IF cleanup_on
       THEN /\ pc' = "cleanup"
            /\ ck' = 1
            /\ cleanup_calls' = cleanup_calls + 1
            /\ UNCHANGED lastend
       ELSE /\ pc' = "ready"
            /\ lastend' = "returned"
            /\ UNCHANGED <<ck, cleanup_calls>>
    /\ UNCHANGED <<hist, now, decl, conf, built, retry, status, run_phase, objsrun, storage,
                   checknrun_cwd, stack, target, obj, runs, attempts, made, tried, checked,
                   passed, runcalls, cleanlog>>

\* ------------------------------------------------------------------ cleanup
\* variant: _objsrun is walked in creation order
forward_objsrun == [i \in 1..Len(objsrun) |-> i]

\* reversed(self._objsrun), as the positions of _objsrun in the order visited
reversed_objsrun == [i \in 1..Len(objsrun) |-> Len(objsrun) + 1 - i]

\* callable(getattr(obj, 'Cleanup', None))
has_cleanup(o) == o.node \in Rich

InCleanup == pc = "cleanup" /\ ck <= Len(objsrun)

\* an instance without a Cleanup method is passed over
CleanupSkip ==
    /\ InCleanup
    /\ ~has_cleanup(objsrun[reversed_objsrun[ck]])
    /\ ck' = ck + 1
    /\ UNCHANGED <<hist, now, decl, conf, built, retry, status, run_phase, objsrun, storage,
                   checknrun_cwd, cwd, pc, stack, target, obj, obs>>

\* obj.Cleanup() returns
CleanupPass ==
    /\ InCleanup
    /\ has_cleanup(objsrun[reversed_objsrun[ck]])
    /\ objsrun' = [objsrun EXCEPT ![reversed_objsrun[ck]].cleanups = @ + 1]
    /\ cleanlog' = Append(cleanlog, reversed_objsrun[ck])
    /\ ck' = ck + 1
    /\ UNCHANGED <<hist, now, decl, conf, built, retry, status, run_phase, storage,
                   checknrun_cwd, cwd, pc, stack, target, obj, runs, lastend,
                   attempts, made, tried, checked, passed, runcalls, restored,
                   cleanup_calls>>

\* obj.Cleanup() raises: the exception leaves cleanup and checknrun
CleanupFail ==
    /\ InCleanup
    /\ has_cleanup(objsrun[reversed_objsrun[ck]])
    /\ objsrun' = [objsrun EXCEPT ![reversed_objsrun[ck]].cleanups = @ + 1]
    /\ cleanlog' = Append(cleanlog, reversed_objsrun[ck])
    /\ pc' = "ready"
    /\ lastend' = "CleanupError"
    /\ UNCHANGED <<hist, now, decl, conf, built, retry, status, run_phase, storage,
                   checknrun_cwd, cwd, stack, target, obj, ck, runs, attempts, made, tried,
                   checked, passed, runcalls, restored, cleanup_calls>>

\* the loop over reversed(self._objsrun) is exhausted: checknrun returns
CleanupDone ==
    /\ pc = "cleanup"
    /\ ck > Len(objsrun)
    /\ pc' = "ready"
    /\ lastend' = "returned"
    /\ UNCHANGED <<hist, now, decl, conf, built, retry, status, run_phase, objsrun, storage,
                   checknrun_cwd, cwd, stack, target, obj, ck, runs, attempts, made, tried,
                   checked, passed, runcalls, cleanlog, restored, cleanup_calls>>

\* ------------------------------------------------------------------ specification
Fn(a, b, c) == [n \in Nodes |-> IF n = "A" THEN a ELSE IF n = "B" THEN b ELSE c]

\* the Job class families the engine is run on: a root with two independent
\* dependencies, a chain, a dependency reached along two paths, four cyclic
\* declarations, one with an invalid TRIES, one with an invalid RETRY_DELAY, and a
\* RunonlyJob that depends on a DummyJob
Scenarios ==
    { [deps |-> Fn(<<"B", "C">>, <<>>, <<>>), tries |-> Fn(<<1>>, <<>>, <<1>>),
       delay |-> Fn(<<>>, <<>>, <<>>), rich |-> {"B", "C"},
       kind |-> Fn("Job", "Job", "Job"),
       secs |-> Fn(0, MaxRunTime, 0)],
      [deps |-> Fn(<<"B">>, <<"C">>, <<>>), tries |-> Fn(<<1>>, <<1>>, <<>>),
       delay |-> Fn(<<>>, <<0>>, <<>>), rich |-> {"A", "B"},
       kind |-> Fn("Job", "Job", "Job"),
       secs |-> Fn(0, 0, MaxRunTime)],
      [deps |-> Fn(<<"B", "C">>, <<"C">>, <<>>), tries |-> Fn(<<>>, <<1>>, <<1>>),
       delay |-> Fn(<<>>, <<>>, <<>>), rich |-> {"A"},
       kind |-> Fn("Job", "Job", "Job"),
       secs |-> Fn(0, 0, 0)],
      [deps |-> Fn(<<"A">>, <<>>, <<>>), tries |-> Fn(<<>>, <<>>, <<>>),
       delay |-> Fn(<<>>, <<>>, <<>>), rich |-> {},
       kind |-> Fn("Job", "Job", "Job"),
       secs |-> Fn(0, 0, 0)],
      [deps |-> Fn(<<"B">>, <<"A">>, <<>>), tries |-> Fn(<<>>, <<>>, <<>>),
       delay |-> Fn(<<>>, <<>>, <<>>), rich |-> {},
       kind |-> Fn("Job", "Job", "Job"),
       secs |-> Fn(0, 0, 0)],
      [deps |-> Fn(<<"B">>, <<"C">>, <<"A">>), tries |-> Fn(<<>>, <<>>, <<>>),
       delay |-> Fn(<<>>, <<>>, <<>>), rich |-> {},
       kind |-> Fn("Job", "Job", "Job"),
       secs |-> Fn(0, 0, 0)],
      [deps |-> Fn(<<"B">>, <<"C">>, <<"B">>), tries |-> Fn(<<>>, <<>>, <<>>),
       delay |-> Fn(<<>>, <<>>, <<>>), rich |-> {},
       kind |-> Fn("Job", "Job", "Job"),
       secs |-> Fn(0, 0, 0)],
      [deps |-> Fn(<<"B">>, <<>>, <<>>), tries |-> Fn(<<>>, <<0>>, <<>>),
       delay |-> Fn(<<>>, <<>>, <<>>), rich |-> {},
       kind |-> Fn("Job", "Job", "Job"),
       secs |-> Fn(0, 0, 0)],
      [deps |-> Fn(<<"B">>, <<>>, <<>>), tries |-> Fn(<<>>, <<>>, <<>>),
       delay |-> Fn(<<>>, <<-1>>, <<>>), rich |-> {},
       kind |-> Fn("Job", "Job", "Job"),
       secs |-> Fn(0, 0, 0)],
      [deps |-> Fn(<<>>, <<"C">>, <<>>), tries |-> Fn(<<1>>, <<2>>, <<2>>),
       delay |-> Fn(<<>>, <<>>, <<>>), rich |-> {"B"},
       kind |-> Fn("Job", "RunonlyJob", "DummyJob"),
       secs |-> Fn(0, 0, 0)] }

Init ==
    /\ \E s \in Scenarios :
           /\ DEPS = s.deps /\ TRIES = s.tries /\ RETRY_DELAY = s.delay
           /\ Rich = s.rich /\ Kind = s.kind /\ RunSecs = s.secs
           /\ NonIterable = {}
    /\ Constructed

Next ==
    \/ \E r \in Nodes, na \in BOOLEAN, cl \in BOOLEAN, dt \in 0..MaxTries :
           Configure(r, na, cl, dt, DefaultRetryDelay)
    \/ \E node \in {"None"} \cup (Range(classmap) \ {root}) : StartRun(node)
    \/ DepSelf \/ DepDone \/ DepCall
    \/ VisitBlocked \/ VisitAlreadyTried \/ VisitNoTries \/ VisitPermit
    \/ ConstructFail \/ ConstructOk
    \/ CheckPass \/ CheckFail
    \/ \E ok \in BOOLEAN : RunCall(ok)
    \/ RecheckPass \/ RecheckFail
    \/ PassSuccess \/ PassKeyError \/ PassExhausted \/ PassNoAct \/ PassRetry
    \/ Finish
    \/ CleanupSkip \/ CleanupPass \/ CleanupFail \/ CleanupDone

Spec == Init /\ [][Next]_vars

\* configure alone, over every declaration of three classes with DEPS lists of these
\* shapes, at most one of them declaring a single class in place of a list
ConfigureTries == { Fn(<<1>>, <<>>, <<>>), Fn(<<>>, <<0>>, <<>>) }
ConfigureDelays == { Fn(<<>>, <<0>>, <<>>), Fn(<<>>, <<>>, <<-1>>) }

InitConfigure ==
    /\ DEPS \in [Nodes -> DepLists]
    /\ NonIterable \in {S \in SUBSET Nodes : Cardinality(S) <= 1}
    /\ \A n \in NonIterable : Len(DEPS[n]) = 1
    /\ TRIES \in ConfigureTries
    /\ RETRY_DELAY \in ConfigureDelays
    /\ Rich = {}
    /\ Kind = [n \in Nodes |-> "Job"]
    /\ RunSecs = [n \in Nodes |-> 0]
    /\ Constructed

NextConfigure ==
    \E r \in Nodes, dt \in 0..MaxTries : Configure(r, FALSE, TRUE, dt, DefaultRetryDelay)

SpecConfigure == InitConfigure /\ [][NextConfigure]_vars

\* ------------------------------------------------------------------ properties
\* the declared dependency relation, closed transitively
RECURSIVE DepClosure(_)
DepClosure(S) ==
    LET T == S \cup UNION {Range(DEPS[n]) : n \in S}
    IN  IF T = S THEN S ELSE DepClosure(T)
DependsOn(n) == DepClosure(Range(DEPS[n]))
ReachableFrom(n) == DepClosure({n})

\* the resolved max-tries of a class: its TRIES, else default_tries
MaxTriesOf(n) == IF TRIES[n] # <<>> THEN TRIES[n][1] ELSE default_tries[1]

InAttempt == pc = "pass" /\ stack # <<>> /\ Top.at \in {"check", "run", "recheck"}
\* the latest attempt has run to its end
AttemptOver == obj.node # "None" /\ ~InAttempt
RunOver == pc = "ready" /\ runs > 0

\* C1: no node is attempted more often than its resolved max-tries, in one run or
\* over all runs, and its tries-remaining counter never goes below 0.
C1_AttemptsWithinTries ==
    \A n \in DOMAIN retry :
        /\ retry[n].tries >= 0
        /\ Len(tried[n]) <= attempts[n]
        /\ attempts[n] <= MaxTriesOf(n)

\* a node used up two tries in the first run and is refused in the second
C1_Witness ==
    /\ runs = 2
    /\ \E n \in DOMAIN retry :
           /\ MaxTriesOf(n) = 2 /\ attempts[n] = 2 /\ retry[n].tries = 0
           /\ n \in DOMAIN nodestatus /\ tried[n] = <<>>

\* C2: while a node is being attempted, every direct and transitive dependency of it
\* is successful; hence a successful node has only successful dependencies, and a
\* node with a non-successful dependency is never successful.
C2_AttemptOnlyAfterDeps ==
    /\ pc = "pass" /\ stack # <<>> /\ Top.at \in {"construct", "check", "run", "recheck"}
           => \A d \in DependsOn(Top.node) : Get(nodestatus, d) = "True"
    /\ \A n \in DOMAIN nodestatus :
           nodestatus[n] = "True" =>
               \A d \in DependsOn(n) : Get(nodestatus, d) = "True"

\* a node with a direct and a transitive dependency is attempted, a retry of one of
\* them having succeeded
C2_Witness ==
    /\ pc = "pass" /\ stack # <<>> /\ Top.at = "check"
    /\ Cardinality(DependsOn(Top.node)) = 2
    /\ Len(DEPS[Top.node]) = 1
    /\ \E d \in DependsOn(Top.node) : Len(tried[d]) = 2

\* C3: an attempt marks its node eventually-succeeded (darkgreen) exactly when its
\* first Check failed and the Check after Run succeeded, succeeded (green) exactly
\* when its first Check succeeded, and failed (red) otherwise.
C3_StatusFollowsChecks ==
    AttemptOver =>
        LET c == color[obj.node]
            first_ok == obj.check_phase # "None" /\ obj.check_exception = "None"
            recovered == /\ obj.check_exception # "None"
                         /\ obj.check_phase = "recheck" /\ obj.recheck_exception = "None"
        IN  /\ c = "darkgreen" <=> recovered
            /\ c = "green" <=> first_ok
            /\ c = "red" <=> ~first_ok /\ ~recovered
            /\ Get(nodestatus, obj.node) = "True" => c \in {"green", "darkgreen"}
            /\ Get(nodestatus, obj.node) = "False" => c = "red"

\* an attempt whose Check failed, whose Run failed and whose recheck passed
C3_Witness ==
    /\ AttemptOver
    /\ obj.check_exception # "None" /\ obj.run_exception # "None"
    /\ obj.recheck_results # "None"
    /\ color[obj.node] = "darkgreen" /\ nodestatus[obj.node] = "True"

\* C4: with no_act=True, Run is never invoked; a node is successful only if the one
\* Check call of its attempt passed, and a node whose Check failed is failed.
C4_NoActNeverRuns ==
    no_act =>
        /\ runcalls = 0
        /\ obj.run_results = "None" /\ obj.run_exception = "None"
        /\ obj.check_phase # "recheck"
        /\ \A n \in DOMAIN nodestatus :
               nodestatus[n] = "True" => n \in passed /\ color[n] = "green"
        /\ \A n \in checked \ passed : nodestatus[n] = "False"
        /\ \A n \in Nodes : Len(tried[n]) <= 1

\* a no_act run has returned with one node succeeded and another failed at its Check
C4_Witness ==
    /\ no_act /\ RunOver /\ lastend = "returned"
    /\ obj.check_exception # "None" /\ nodestatus[obj.node] = "False"
    /\ retry[obj.node].tries > 0
    /\ \E n \in DOMAIN nodestatus : nodestatus[n] = "True"

\* the instances that define Cleanup, latest created first
RECURSIVE CleanableReversed(_)
CleanableReversed(k) ==
    IF k = 0 THEN <<>>
    ELSE (IF objsrun[k].node \in Rich THEN <<k>> ELSE <<>>) \o CleanableReversed(k - 1)
IsPrefix(a, b) == Len(a) <= Len(b) /\ a = SubSeq(b, 1, Len(a))

\* C5: every constructor call that returned left one instance in _objsrun; a cleanup
\* pass calls Cleanup on the instances (those that define it) in the reverse of their
\* creation order, on all of them when it returns; a failing Cleanup is the last call
\* of the pass and its failure leaves checknrun.
C5_CleanupReverseOrder ==
    /\ Len(objsrun) = made
    /\ IsPrefix(cleanlog, CleanableReversed(Len(objsrun)))
    /\ RunOver /\ cleanup_on /\ lastend = "returned"
           => cleanlog = CleanableReversed(Len(objsrun))
    /\ lastend = "CleanupError" => pc = "ready" /\ cleanlog # <<>>

\* the second of three Cleanup calls failed, after an instance without Cleanup was
\* passed over: the earliest instance is left uncleaned
C5_Witness ==
    /\ lastend = "CleanupError"
    /\ Len(cleanlog) = 2
    /\ Len(CleanableReversed(Len(objsrun))) = 3
    /\ \E k \in 1..Len(objsrun) : objsrun[k].node \notin Rich /\ k > cleanlog[1]

\* the node a run is aimed at
Target == IF target = "None" THEN root ELSE target
Consecutive(phases) == \A i \in 1..(Len(phases) - 1) : phases[i + 1] = phases[i] + 1

\* C6: every call of checknrun, whatever its target and whatever the jobs do, ends
\* having restored the working directory and, unless cleanup is disabled, having
\* called cleanup.
C6_RunEndsRestoredAndCleaned ==
    RunOver => restored /\ (cleanup_on => cleanup_calls = 1)

\* C7: in act mode a node without dependencies whose Check and Run are called and
\* never pass is attempted exactly max-tries times in a run, in consecutive phases,
\* and the run ends with the node failed and success() false.
C7_AlwaysFailingNodeUsesAllTries ==
    RunOver /\ ~no_act =>
        \A n \in ReachableFrom(Target) :
            DEPS[n] = <<>> /\ n \in checked /\ n \notin passed =>
                /\ Len(tried[n]) = MaxTriesOf(n)
                /\ Consecutive(tried[n])
                /\ Get(nodestatus, n) = "False"
                /\ ~success

\* the storage-writing nodes of which a method of their own was called in this run
Wrote ==
    {n \in Rich : \/ Kind[n] = "Job" /\ n \in checked
                  \/ Kind[n] = "RunonlyJob" /\ runsof[n] > 0}

\* C8: an attempt starts with an empty local mapping and its local mapping only ever
\* holds what its own calls wrote; the shared mapping holds the keys of every call
\* made since the run started, and nothing older.
C8_StorageScopes ==
    /\ InAttempt =>
           storage[Top.node] \subseteq
               (CASE Top.at = "check" -> {}
                  [] Top.at = "run" -> {"check"}
                  [] Top.at = "recheck" -> {"check", "run"})
    /\ "__global" \in DOMAIN storage => storage["__global"] = Wrote

\* the second attempt of a storage-writing node starts: its local mapping is empty
\* while the shared mapping holds its key and another node's
C8_Witness ==
    /\ pc = "pass" /\ stack # <<>> /\ Top.at = "check"
    /\ Top.node \in Rich /\ Len(tried[Top.node]) = 2
    /\ storage[Top.node] = {}
    /\ Top.node \in storage["__global"]
    /\ Cardinality(storage["__global"]) = 2

\* C9: after a run success() holds exactly when every node reachable from the target
\* is successful, failure() is its negation, partial_success() holds exactly when
\* some node is successful; with no status recorded both are false.
C9_SuccessQueries ==
    /\ RunOver =>
           /\ success <=> \A n \in ReachableFrom(Target) : Get(nodestatus, n) = "True"
           /\ partial_success <=> \E n \in Nodes : Get(nodestatus, n) = "True"
    /\ failure <=> ~success
    /\ (\A n \in Nodes : Get(nodestatus, n) = "None") => ~success /\ ~partial_success

\* a run aimed at a dependency succeeded, one node only after its Run, while the
\* root has no status
C9_Witness ==
    /\ RunOver /\ success /\ partial_success
    /\ target # "None" /\ root \notin DOMAIN nodestatus
    /\ Cardinality(DOMAIN nodestatus) = 2
    /\ \E n \in DOMAIN nodestatus : color[n] = "darkgreen"

\* the declaration reachable from the root holds a cycle
Cyclic == \E n \in ReachableFrom(root) : n \in DependsOn(n)
ValidTries == \A n \in ReachableFrom(root) : MaxTriesOf(n) >= 1
\* the resolved retry delay of a class: its RETRY_DELAY, else default_retry_delay
DelayOf(n) == IF RETRY_DELAY[n] # <<>> THEN RETRY_DELAY[n][1] ELSE default_retry_delay[1]
ValidDelays == \A n \in ReachableFrom(root) : DelayOf(n) >= 0

\* every DEPS reachable from the root is a list
IterableDeps == \A n \in ReachableFrom(root) : n \notin NonIterable
\* no DEPS list reachable from the root names a class twice
NoRepeatedDeps ==
    \A n \in ReachableFrom(root) : Cardinality(Range(DEPS[n])) = Len(DEPS[n])
\* configure failed exactly on a cycle, and before any job was constructed or attempted
FailsOnCycleOnly ==
    /\ pc = "config_error" <=> Cyclic
    /\ pc = "config_error" =>
           made = 0 /\ objsrun = <<>> /\ runs = 0 /\ \A n \in Nodes : attempts[n] = 0

\* C10 as stated: with valid TRIES and RETRY_DELAY, configure fails exactly when the
\* dependency relation reachable from the root holds a cycle, and no job has been
\* constructed then.
C10_ConfigureRejectsCycles ==
    pc # "new" /\ ValidTries /\ ValidDelays => FailsOnCycleOnly

\* C10, amended: with valid TRIES and RETRY_DELAY, and every DEPS reachable from the
\* root an iterable list that names no class twice, configure fails exactly when the
\* dependency relation reachable from the root holds a cycle, and no job has been
\* constructed then.
C10_ConfigureRejectsCyclesOfLists ==
    pc # "new" /\ ValidTries /\ ValidDelays /\ IterableDeps /\ NoRepeatedDeps =>
        FailsOnCycleOnly

\* configure failed on a cycle of length three that does not pass through a node's
\* first dependency
C10_Witness ==
    /\ pc = "config_error" /\ ValidTries /\ ValidDelays
    /\ IterableDeps /\ NoRepeatedDeps
    /\ Cardinality(ReachableFrom(root)) = 3
    /\ \A n \in Nodes : n \notin Range(DEPS[n]) /\ Len(DEPS[n]) = 2
    /\ \A n \in Nodes : DEPS[n][1] \notin {m \in Nodes : n = DEPS[m][1]}
    /\ Len(classmap) = 3

\* the latest attempt was made in the current run and has run to its end
AttemptDone == AttemptOver /\ tried[obj.node] # <<>> /\ pc \in {"pass", "afterpass"}

\* C11: in act mode every attempt of a RunonlyJob node fails its first Check, calls Run
\* and rechecks; it ends eventually-succeeded with Run's result as the node's result
\* when Run returned, and failed with Run's exception as the node's exception when
\* Run raised. In no-act mode a RunonlyJob node is never successful.
C11_RunonlyJob ==
    /\ AttemptDone /\ Kind[obj.node] = "RunonlyJob" /\ obj.constructed /\ ~no_act =>
           /\ trace = <<"check", "run", "recheck">>
           /\ obj.check_exception # "None" /\ obj.check_results = "None"
           /\ obj.run_exception = "None" =>
                  /\ nodestatus[obj.node] = "True" /\ color[obj.node] = "darkgreen"
                  /\ noderesults[obj.node] = obj.run_results
                  /\ obj.run_results = "run_res"
           /\ obj.run_exception # "None" =>
                  /\ nodestatus[obj.node] = "False" /\ color[obj.node] = "red"
                  /\ nodeexceptions[obj.node] = obj.run_exception
                  /\ obj.run_exception = "run_err"
    /\ no_act => \A n \in DOMAIN nodestatus :
                     Kind[n] = "RunonlyJob" => nodestatus[n] # "True"

\* a RunonlyJob node whose Run raised in its first attempt has succeeded in its
\* second: its result is Run's, its exception still the first Run's
C11_Witness ==
    /\ AttemptDone /\ Kind[obj.node] = "RunonlyJob" /\ ~no_act
    /\ Len(tried[obj.node]) = 2
    /\ nodestatus[obj.node] = "True"
    /\ noderesults[obj.node] = "run_res" /\ nodeexceptions[obj.node] = "run_err"

\* C12: the Run method of a RunonlyJob node is never invoked a second time during a
\* run of checknrun, whether it returned or raised.
C12_RunonlyRunsOnce ==
    \A n \in Nodes : Kind[n] = "RunonlyJob" => runsof[n] <= 1

\* C13: a node that has not been attempted in the current run has no status other
\* than untested, no captured result and no captured failure: what earlier runs
\* recorded was cleared when the run started.
C13_StatusResetEachRun ==
    \A n \in Nodes :
        tried[n] = <<>> =>
            /\ Get(nodestatus, n) = "None"
            /\ n \notin DOMAIN noderesults
            /\ n \notin DOMAIN nodeexceptions

\* the three conditions for another pass, on the statuses the pass left
SomeRetriable ==
    \E n \in DOMAIN nodestatus : nodestatus[n] = "False" /\ retry[n].tries > 0
AnotherPassDue == ~success /\ SomeRetriable /\ ~no_act
\* checknrun's loop has been left in the current run
LoopLeft == runs > 0 /\ pc \in {"finish", "cleanup", "ready"}
\* a pass other than the first of its run is about to start
PassRestarted ==
    /\ pc = "pass" /\ passes > 1
    /\ Len(stack) = 1 /\ Top.i = 1 /\ Top.at = "deps"

\* C14: after a pass another one is started exactly when success() does not hold, some
\* node is failed with tries remaining and the engine is not in no-act mode; in
\* no-act mode a run makes one pass.
C14_AnotherPassIff ==
    /\ LoopLeft => ~AnotherPassDue
    /\ PassRestarted => AnotherPassDue
    /\ no_act => passes <= 1

\* a step that permits an attempt of n: its retry record changes during a run
Permits(n) ==
    /\ pc = "pass" /\ n \in DOMAIN retry
    /\ retry'[n] # retry[n]
\* a step that calls the constructor of n
Constructs(n) == attempts'[n] # attempts[n]
Last(seq) == seq[Len(seq)]

\* the attempts of a node in a run were made in increasing phases; a node never
\* attempted has last-attempted phase -1
PhasesIncrease ==
    \A n \in DOMAIN retry :
        /\ \A i \in 1..(Len(tried[n]) - 1) : tried[n][i] < tried[n][i + 1]
        /\ retry[n].tries = MaxTriesOf(n) <=> retry[n].lastphase = -1
        /\ retry[n].lastphase = -1 => attempts[n] = 0
        /\ tried[n] # <<>> => Last(tried[n]) <= retry[n].lastphase
        /\ retry[n].lastphase <= run_phase

PermitStep ==
    \A n \in Nodes :
        /\ Permits(n) =>
               /\ run_phase > retry[n].lastphase /\ retry[n].tries > 0
               /\ retry'[n].tries = retry[n].tries - 1
               /\ retry'[n].lastphase = run_phase
               /\ attempts' = attempts /\ objsrun' = objsrun
               /\ Top'.at = "construct" /\ Top'.node = n
        /\ Constructs(n) =>
               /\ AtTop("construct") /\ Top.node = n
               /\ retry[n].lastphase = run_phase /\ retry' = retry
               /\ tried[n] # <<>> => Last(tried[n]) < run_phase

\* C15: an attempt is permitted only when the phase counter is greater than the
\* node's last-attempted phase and it has tries left; the permission takes one try
\* and sets last-attempted phase to the current phase before the constructor is
\* called, so a node is attempted at most once per phase; last-attempted phase is -1
\* for a node never attempted.
C15_OneAttemptPerPhase == []PhasesIncrease /\ [][PermitStep]_vars

\* a node attempted in phase 0 is visited again in phase 0, through a node that
\* depends on it, while it has a try left
C15_Witness ==
    /\ Visiting /\ ~Top.blocked
    /\ Len(stack) = 3
    /\ tried[Top.node] = <<0>> /\ run_phase = 0
    /\ retry[Top.node].tries = 1

ClockStep ==
    /\ now' >= now
    /\ \A n \in Nodes :
           Permits(n) =>
               /\ now' >= retry[n].nexttry
               /\ started'[n] = <<now'>>
               /\ retry'[n].nexttry = now' + retry[n].retry_delay
               /\ retry'[n].retry_delay = retry[n].retry_delay
               /\ started[n] # <<>> => now' - started[n][1] >= retry[n].retry_delay

\* C16: the clock never goes back; an attempt of a node starts no earlier than the
\* node's next-eligible time, which the start sets to the start time plus the node's
\* retry delay; two successive attempts of a node start at least retry_delay apart.
C16_RetryDelayRespected == [][ClockStep]_vars

\* the scheduler waited: no Run takes any time, yet the second attempt of a node
\* with a delay of 1 s starts at 1 s
C16_Witness ==
    /\ AtTop("construct")
    /\ \A n \in Nodes : RunSecs[n] = 0
    /\ Len(tried[Top.node]) = 1 /\ retry[Top.node].retry_delay = 1
    /\ started[Top.node] = <<1>> /\ now = 1
    /\ retry[Top.node].nexttry = 2

\* C17: in act mode an attempt whose first Check failed calls Run once and then the
\* recheck once, whether Run returned or raised; the recheck alone decides the
\* status: eventually-succeeded with its result when it passed, failed with its
\* failure captured when it raised.
C17_RecheckDecides ==
    /\ trace # <<>> /\ Last(trace) = "run" =>
           /\ AtTop("recheck") /\ trace = <<"check", "run">>
           /\ ~no_act /\ obj.check_exception # "None"
    /\ AtTop("run") => trace = <<"check">> /\ obj.check_exception # "None"
    /\ AttemptDone /\ ~no_act /\ obj.check_exception # "None" =>
           /\ trace = <<"check", "run", "recheck">>
           /\ obj.check_phase = "recheck"
           /\ obj.recheck_exception = "None" =>
                  /\ nodestatus[obj.node] = "True" /\ color[obj.node] = "darkgreen"
                  /\ noderesults[obj.node] = obj.recheck_results
           /\ obj.recheck_exception # "None" =>
                  /\ nodestatus[obj.node] = "False" /\ color[obj.node] = "red"
                  /\ nodeexceptions[obj.node] = obj.recheck_exception

\* the Run of a Job returned and its recheck raised: the node is failed with the
\* recheck's failure
C17_Witness ==
    /\ AttemptDone /\ ~no_act /\ Kind[obj.node] = "Job"
    /\ obj.check_exception = "check_err" /\ obj.run_results = "run_res"
    /\ obj.recheck_exception = "recheck_err"
    /\ nodestatus[obj.node] = "False" /\ nodeexceptions[obj.node] = "recheck_err"

\* the nodes whose latest attempt in the current run failed in the constructor
ConstructorFailed ==
    {n \in DOMAIN nodestatus :
        nodestatus[n] = "False" /\ Get(nodeexceptions, n) = "ctor_err"}

\* C18: a failing constructor leaves its node failed with the construction error
\* captured, with no Check, Run or recheck called and no instance recorded, and having
\* used one try; the run goes on: in act mode checknrun's loop is not left while such
\* a node has tries remaining.
C18_ConstructorFailure ==
    /\ AttemptDone /\ ~obj.constructed /\ ~AtTop("construct") =>
           /\ nodestatus[obj.node] = "False" /\ nodeexceptions[obj.node] = "ctor_err"
           /\ trace = <<>>
           /\ retry[obj.node].tries = MaxTriesOf(obj.node) - attempts[obj.node]
    /\ Len(objsrun) = made
    /\ LoopLeft /\ ~no_act => \A n \in ConstructorFailed : retry[n].tries = 0

\* C19: every run starts its loop with the phase counter at 0, and after the first
\* pass of a run no node is left unattempted that has tries remaining and whose
\* dependencies all succeeded.
C19_RunStartsAtPhaseZero ==
    /\ pc = "pass" /\ passes = 1 => run_phase = 0
    /\ pc = "afterpass" /\ passes = 1 =>
           \A n \in ReachableFrom(Target) :
               /\ retry[n].tries > 0
               /\ \A d \in DependsOn(n) : Get(nodestatus, d) = "True"
               => tried[n] # <<>>

\* no attempt of an already successful node is under way
NoAttemptOfSucceeded ==
    pc = "pass" /\ stack # <<>> /\ Top.at \in {"construct", "check", "run", "recheck"}
        => Get(nodestatus, Top.node) # "True"

SucceededStaysStep ==
    \A n \in Nodes :
        Get(nodestatus, n) = "True" /\ runs' = runs =>
            /\ nodestatus'[n] = "True"
            /\ attempts'[n] = attempts[n] /\ retry'[n] = retry[n]
            /\ runsof'[n] = runsof[n] /\ tried'[n] = tried[n]
            /\ color'[n] = color[n] /\ noderesults'[n] = noderesults[n]

\* C20: within a run a node that is succeeded or eventually-succeeded is never
\* attempted again (no instance, no Check or Run call, no try used) and keeps its
\* status until the run is over.
C20_SucceededIsSkipped == []NoAttemptOfSucceeded /\ [][SucceededStaysStep]_vars

\* in the second pass of a run the loop over the dependencies reaches a node that
\* succeeded in the first pass, while another node is being retried
C20_Witness ==
    /\ AtTop("deps") /\ passes = 2
    /\ Top.i <= Len(Top.post) /\ Top.post[Top.i] # Top.node
    /\ Get(nodestatus, Top.post[Top.i]) = "True"
    /\ tried[Top.post[Top.i]] = <<0>>
    /\ \E m \in DOMAIN nodestatus : nodestatus[m] = "False"

\* ------------------------------------------------------------------ termination
\* one step of a call in progress: checknrun's loop, the walk of a pass, an attempt,
\* the cleanup pass; configure and the start of a run are the caller's to make
Returns ==
    \/ DepSelf \/ DepDone \/ DepCall
    \/ VisitBlocked \/ VisitAlreadyTried \/ VisitNoTries \/ VisitPermit
    \/ ConstructFail \/ ConstructOk
    \/ CheckPass \/ CheckFail
    \/ \E ok \in BOOLEAN : RunCall(ok)
    \/ RecheckPass \/ RecheckFail
    \/ PassSuccess \/ PassKeyError \/ PassExhausted \/ PassNoAct \/ PassRetry
    \/ Finish
    \/ CleanupSkip \/ CleanupPass \/ CleanupFail \/ CleanupDone

\* the program is sequential and every Check, Run, constructor and Cleanup call
\* returns: a call in progress takes its next step.
\* The clock plays no part in whether a run ends: the families whose Run takes no time
InitReturns ==
    /\ \E s \in {x \in Scenarios : \A n \in Nodes : x.secs[n] = 0} :
           /\ DEPS = s.deps /\ TRIES = s.tries /\ RETRY_DELAY = s.delay
           /\ Rich = s.rich /\ Kind = s.kind /\ RunSecs = s.secs
           /\ NonIterable = {}
    /\ Constructed
SpecReturns == InitReturns /\ [][Next]_vars /\ WF_vars(Returns)

RECURSIVE Sum(_, _)
Sum(f, S) == IF S = {} THEN 0
             ELSE LET x == CHOOSE y \in S : TRUE IN f[x] + Sum(f, S \ {x})

\* the tries the current run has consumed so far
TriesConsumed == Sum([n \in Nodes |-> Len(tried[n])], Nodes)
\* the sum of the configured nodes' max-tries
TriesTotal == Sum([n \in DOMAIN retry |-> MaxTriesOf(n)], DOMAIN retry)
\* a run of checknrun is in progress
Running == pc \in {"pass", "afterpass", "finish", "cleanup"}
\* some node was attempted in the pass that has just ended
PassConsumedTry ==
    \E n \in DOMAIN retry :
        /\ tried[n] # <<>> /\ Last(tried[n]) = run_phase
        /\ retry[n].lastphase = run_phase /\ retry[n].tries < MaxTriesOf(n)
PassesBounded ==
    /\ (pc = "afterpass" /\ AnotherPassDue /\ ~retriable_raises) => PassConsumedTry
    /\ (Running \/ RunOver) =>
           /\ passes <= TriesConsumed + 1
           /\ TriesConsumed <= TriesTotal
           /\ passes <= TriesTotal + 1

\* C21: every run of checknrun terminates, given that every call it makes returns:
\* a pass that is followed by another pass has consumed a try of some node, and the
\* passes of a run number at most the sum of the nodes' max-tries plus one.
C21_RunTerminates == []PassesBounded /\ (Running ~> pc = "ready")

\* a run of three passes has returned
C21_Witness ==
    /\ RunOver /\ lastend = "returned"
    /\ passes = 3 /\ TriesConsumed >= 3

\* ------------------------------------------------------------------ exhaustion
\* the first run after configure has stopped, in act mode, without overall success
StoppedUnsuccessful == runs = 1 /\ RunOver /\ ~no_act /\ ~success
\* n cannot be attempted any more: it has no tries left or a dependency of it is
\* not successful
Spent(n) ==
    \/ retry[n].tries = 0
    \/ \E d \in Range(DEPS[n]) : Get(nodestatus, d) # "True"

\* C22: in act mode, when the first run after configure stops without overall success,
\* every node reachable from the root whose status is not successful has 0 tries
\* remaining or a dependency whose status is not successful; no node is left untested
\* with all its dependencies successful and tries remaining.
C22_NothingLeftToAttempt ==
    StoppedUnsuccessful =>
        \A n \in ReachableFrom(root) : Get(nodestatus, n) # "True" => Spent(n)

\* ------------------------------------------------------------------ cleanup once
\* C23: over any sequence of runs of one configured engine with cleanup enabled,
\* Cleanup is invoked at most once on each job instance: the cleanup pass of a run
\* covers the instances constructed in that run only.
C23_CleanupOncePerInstance ==
    cleanup_on => \A k \in 1..Len(objsrun) : objsrun[k].cleanups <= 1

====
